---- MODULE Spec2Model ----
(***************************************************************************)
(* Model of the drift detection engine of ec2Drift:                        *)
(* internal/driftchecker.Detect, its per-key goroutines, the buffered      *)
(* report channel, the WaitGroup join and the aggregation loop.            *)
(***************************************************************************)
EXTENDS Integers, Sequences, FiniteSets, TLC

\* ------------------------------------------------------------------ bounds
\* Largest total number of records in the two input collections (scheduling inputs).
MaxRecs == 3
\* Largest length of an attribute-path list (comparison inputs).
MaxAttrs == 2
\* Number of times the caller invokes Detect on the same inputs (SpecRerun).
MaxRuns == 2
\* state instances handed to the legacy comparator.DetectDrift
MaxLegacy == 2

\* ----------------------------------------------------------------- helpers
RECURSIVE SeqsUpTo(_, _)
SeqsUpTo(S, n) ==
  IF n = 0 THEN {<<>>}
  ELSE LET P == SeqsUpTo(S, n - 1)
       IN  P \cup {Append(s, e) : s \in {p \in P : Len(p) = n - 1}, e \in S}

Range(s) == {s[i] : i \in DOMAIN s}

\* All orders in which the elements of the finite set S can be visited.
RECURSIVE Orders(_)
Orders(S) ==
  IF S = {} THEN {<<>>}
  ELSE UNION {{<<e>> \o p : p \in Orders(S \ {e})} : e \in S}

\* ---------------------------------------------------------------- values
\* interface{} values of DriftDetail: the dynamic type travels with the value.
Nil == <<"nil">>
StringValue(s) == <<"string", s>>
IntValue(n) == <<"int", n>>
StringsValue(l) == <<"[]string", l>>
InstanceValue(i) == <<"cloud.Instance", i>>

\* cloud.Instance
Instance(id, ami, ty, sgs, tags, size, vtype) ==
  [InstanceID |-> id, AMI |-> ami, InstanceType |-> ty, SecurityGroups |-> sgs,
   Tags |-> tags, RootBlockDevice |-> [VolumeSize |-> size, VolumeType |-> vtype]]

DriftDetail(attr, expected, actual) ==
  [Attribute |-> attr, ExpectedValue |-> expected, ActualValue |-> actual]

DriftReport(id, name, drifts) ==
  [InstanceID |-> id, Name |-> name, Drifts |-> drifts]

\* strings.Split(attr, "."): the segments of every attribute path in use.
Split ==
  [ami |-> <<"ami">>, instance_type |-> <<"instance_type">>,
   security_groups |-> <<"security_groups">>, tags |-> <<"tags">>,
   root_block_device |-> <<"root_block_device">>,
   unsupported_attr |-> <<"unsupported_attr">>]
  @@ ("tags.Env" :> <<"tags", "Env">>) @@ ("tags.Owner" :> <<"tags", "Owner">>)
  @@ ("tags.Name" :> <<"tags", "Name">>)
  @@ ("root_block_device.volume_size" :> <<"root_block_device", "volume_size">>)
  @@ ("root_block_device.volume_type" :> <<"root_block_device", "volume_type">>)
  @@ ("root_block_device.iops" :> <<"root_block_device", "iops">>)
  @@ ("ami.id" :> <<"ami", "id">>) @@ ("" :> <<"">>)

\* "tags." + k
TagsDot == ("Env" :> "tags.Env") @@ ("Owner" :> "tags.Owner") @@ ("Name" :> "tags.Name")

\* ------------------------------------------------------ equalStringSlices
\* sort.Strings orders lexicographically; the identifiers in use compare by rank.
StringRank == ("sg-1" :> 1) @@ ("sg-2" :> 2) @@ ("sg-3" :> 3)

RECURSIVE Insert(_, _)
Insert(sorted, e) ==
  IF sorted = <<>> THEN <<e>>
  ELSE IF StringRank[e] < StringRank[Head(sorted)] THEN <<e>> \o sorted
  ELSE <<Head(sorted)>> \o Insert(Tail(sorted), e)

RECURSIVE SortStrings(_)
SortStrings(s) ==
  IF s = <<>> THEN <<>> ELSE Insert(SortStrings(Tail(s)), Head(s))

\* (mutant) sort.Strings applied to the argument itself
ArgumentSortedInPlace(a) == SortStrings(a)

\* aCopy := append([]string(nil), a...); sort.Strings(aCopy): the copy is sorted,
\* the elements of the argument's own backing array stay where they are.
ArgumentAfterSort(a) == a

\* (mutant) the slices compared element by element, unsorted
equalStringSlicesInOrder(a, b) == a = b

equalStringSlices(a, b) ==
  IF Len(a) # Len(b) THEN FALSE
  ELSE SortStrings(a) = SortStrings(b)

\* ---------------------------------------------------- attribute comparison
\* The details one attribute path appends for the pair (o, c). The result is a
\* set of detail sequences: the bare "tags" path ranges over a Go map, whose
\* iteration order is unspecified, so every order of its details is possible.
TagValue(tags, key) == IF key \in DOMAIN tags THEN tags[key] ELSE ""

\* (mutant) the presence of the key in the current map is not looked at
TagDiffersValuesOnly(o, c, k) == o.Tags[k] # TagValue(c.Tags, k)

TagDiffers(o, c, k) == k \notin DOMAIN c.Tags \/ o.Tags[k] # c.Tags[k]

\* (mutant) only the two values are compared, a missing key reads as ""
TagsKeyDriftValuesOnly(o, c, attr, key) ==
  IF key = "Name" THEN {<<>>}
  ELSE IF TagValue(o.Tags, key) # TagValue(c.Tags, key)
       THEN {<<DriftDetail(attr, StringValue(TagValue(o.Tags, key)),
                                 StringValue(TagValue(c.Tags, key)))>>}
       ELSE {<<>>}

TagsKeyDrift(o, c, attr, key) ==
  IF key = "Name" THEN {<<>>}
  ELSE IF key \notin DOMAIN o.Tags \/ key \notin DOMAIN c.Tags
          \/ TagValue(o.Tags, key) # TagValue(c.Tags, key)
       THEN {<<DriftDetail(attr, StringValue(TagValue(o.Tags, key)),
                                 StringValue(TagValue(c.Tags, key)))>>}
       ELSE {<<>>}

RECURSIVE TagsScan(_, _, _)
TagsScan(o, c, order) ==
  IF order = <<>> THEN <<>>
  ELSE LET k == Head(order)
           rest == TagsScan(o, c, Tail(order))
       IN  IF k = "Name" THEN rest
           ELSE IF TagDiffers(o, c, k)
                THEN <<DriftDetail(TagsDot[k], StringValue(o.Tags[k]),
                                   StringValue(TagValue(c.Tags, k)))>> \o rest
                ELSE rest

TagsAllDrift(o, c) == {TagsScan(o, c, order) : order \in Orders(DOMAIN o.Tags)}

VolumeSizeDrift(o, c, attr) ==
  IF o.RootBlockDevice.VolumeSize # c.RootBlockDevice.VolumeSize
  THEN <<DriftDetail(attr, IntValue(o.RootBlockDevice.VolumeSize),
                           IntValue(c.RootBlockDevice.VolumeSize))>>
  ELSE <<>>

\* (mutant) the volume type case tests the volume sizes
VolumeTypeDriftComparesSize(o, c, attr) ==
  IF o.RootBlockDevice.VolumeSize # c.RootBlockDevice.VolumeSize
  THEN <<DriftDetail(attr, StringValue(o.RootBlockDevice.VolumeType),
                           StringValue(c.RootBlockDevice.VolumeType))>>
  ELSE <<>>

VolumeTypeDrift(o, c, attr) ==
  IF o.RootBlockDevice.VolumeType # c.RootBlockDevice.VolumeType
  THEN <<DriftDetail(attr, StringValue(o.RootBlockDevice.VolumeType),
                           StringValue(c.RootBlockDevice.VolumeType))>>
  ELSE <<>>

RootBlockDeviceDrift(o, c, attr, parts) ==
  IF Len(parts) > 1
  THEN CASE parts[2] = "volume_size" -> {VolumeSizeDrift(o, c, attr)}
         [] parts[2] = "volume_type" -> {VolumeTypeDrift(o, c, attr)}
         [] OTHER -> {<<>>}
  ELSE {VolumeSizeDrift(o, c, "root_block_device.volume_size")
        \o VolumeTypeDrift(o, c, "root_block_device.volume_type")}

\* (mutant) the two values exchanged in the detail
ScalarDriftSwapped(attr, ov, cv) ==
  IF ov # cv THEN {<<DriftDetail(attr, StringValue(cv), StringValue(ov))>>} ELSE {<<>>}

\* if o.X != c.X { drifts = append(drifts, DriftDetail{attr, o.X, c.X}) }
ScalarDrift(attr, ov, cv) ==
  IF ov # cv THEN {<<DriftDetail(attr, StringValue(ov), StringValue(cv))>>} ELSE {<<>>}

AttrDrifts(o, c, attr) ==
  LET parts == Split[attr]
  IN  CASE parts[1] = "ami" -> ScalarDrift(attr, o.AMI, c.AMI)
        [] parts[1] = "instance_type" -> ScalarDrift(attr, o.InstanceType, c.InstanceType)
        [] parts[1] = "security_groups" ->
             IF ~equalStringSlices(o.SecurityGroups, c.SecurityGroups)
             THEN {<<DriftDetail(attr, StringsValue(o.SecurityGroups),
                                       StringsValue(c.SecurityGroups))>>}
             ELSE {<<>>}
        [] parts[1] = "tags" ->
             IF Len(parts) > 1 THEN TagsKeyDrift(o, c, attr, parts[2])
             ELSE TagsAllDrift(o, c)
        [] parts[1] = "root_block_device" -> RootBlockDeviceDrift(o, c, attr, parts)
        [] OTHER -> {<<>>}

\* (mutant) the details of a path are put in front of those found so far
RECURSIVE CompareAllReversed(_, _, _)
CompareAllReversed(o, c, attrs) ==
  IF attrs = <<>> THEN {<<>>}
  ELSE {rest \o d : d \in AttrDrifts(o, c, Head(attrs)),
                    rest \in CompareAllReversed(o, c, Tail(attrs))}

\* The drifts slice after the loop over the attribute list (every possible value).
RECURSIVE CompareAll(_, _, _)
CompareAll(o, c, attrs) ==
  IF attrs = <<>> THEN {<<>>}
  ELSE {d \o rest : d \in AttrDrifts(o, c, Head(attrs)),
                    rest \in CompareAll(o, c, Tail(attrs))}

\* ------------------------------------------------------------ the reports
\* (mutant) expected and actual exchanged
RemovedReportSwapped(o, n) ==
  DriftReport(o.InstanceID, n,
              <<DriftDetail("instance_removed", Nil, InstanceValue(o))>>)

RemovedReport(o, n) ==
  DriftReport(o.InstanceID, n,
              <<DriftDetail("instance_removed", InstanceValue(o), Nil)>>)

AddedReport(c, n) ==
  DriftReport(c.InstanceID, n,
              <<DriftDetail("instance_added", Nil, InstanceValue(c))>>)

MatchedReport(o, n, drifts) == DriftReport(o.InstanceID, n, drifts)

\* --------------------------------------------------------------- indexing
\* (mutant) a name already indexed is not overwritten
RECURSIVE IndexByNameFirstWins(_)
IndexByNameFirstWins(state) ==
  IF state = <<>> THEN <<>>
  ELSE LET back == IndexByNameFirstWins(Tail(state))
           inst == Head(state)
       IN  IF "Name" \in DOMAIN inst.Tags
           THEN [n \in DOMAIN back \cup {inst.Tags["Name"]} |->
                   IF n = inst.Tags["Name"] THEN inst ELSE back[n]]
           ELSE back

\* (mutant) the records are indexed by their resource identifier
RECURSIVE IndexByInstanceID(_)
IndexByInstanceID(state) ==
  IF state = <<>> THEN <<>>
  ELSE LET front == IndexByInstanceID(SubSeq(state, 1, Len(state) - 1))
           inst == state[Len(state)]
       IN  [n \in DOMAIN front \cup {inst.InstanceID} |->
              IF n = inst.InstanceID THEN inst ELSE front[n]]

\* (mutant) the ok of the map lookup is ignored: a record without the tag is
\* indexed under the zero value ""
RECURSIVE IndexByNameIgnoresOk(_)
IndexByNameIgnoresOk(state) ==
  IF state = <<>> THEN <<>>
  ELSE LET front == IndexByNameIgnoresOk(SubSeq(state, 1, Len(state) - 1))
           inst == state[Len(state)]
           name == TagValue(inst.Tags, "Name")
       IN  [n \in DOMAIN front \cup {name} |-> IF n = name THEN inst ELSE front[n]]

\* for _, inst := range state { if name, ok := inst.Tags["Name"]; ok { m[name] = inst } }
RECURSIVE IndexByName(_)
IndexByName(state) ==
  IF state = <<>> THEN <<>>
  ELSE LET front == IndexByName(SubSeq(state, 1, Len(state) - 1))
           inst == state[Len(state)]
       IN  IF "Name" \in DOMAIN inst.Tags
           THEN [n \in DOMAIN front \cup {inst.Tags["Name"]} |->
                   IF n = inst.Tags["Name"] THEN inst ELSE front[n]]
           ELSE front

\* ---------------------------------------------------------------- inputs
Tags3(name, env, owner) == ("Name" :> name) @@ ("Env" :> env) @@ ("Owner" :> owner)

App1 ==
  Instance("i-1", "ami-1", "t2.micro", <<"sg-1", "sg-2">>,
           Tags3("app1", "prod", "teamA"), 8, "gp2")
\* app1 again: other id, image, type and Env tag, no Owner tag, security groups reordered
App1Drifted ==
  Instance("i-2", "ami-2", "t2.large", <<"sg-2", "sg-1">>,
           ("Name" :> "app1") @@ ("Env" :> "dev"), 8, "gp2")
App2 ==
  Instance("i-3", "ami-1", "t2.micro", <<>>, ("Name" :> "app2"), 8, "gp2")
\* a record without the Name tag
Unnamed ==
  Instance("i-4", "ami-1", "t2.micro", <<"sg-1">>, ("Env" :> "prod"), 8, "gp2")

SchedInstances == {App1, App1Drifted, App2, Unnamed}
SchedAttrLists == {<<>>, <<"ami", "tags">>, <<"unsupported_attr">>}

\* Both collections together hold at most MaxRecs records.
SchedInputs ==
  {io \in SeqsUpTo(SchedInstances, MaxRecs) \X SeqsUpTo(SchedInstances, MaxRecs) :
     Len(io[1]) + Len(io[2]) <= MaxRecs}

\* Comparison inputs: one record per collection, App1 against a variant of it.
WithField(inst, field, value) == [inst EXCEPT ![field] = value]

CmpVariants ==
  {App1,
   WithField(App1, "AMI", "ami-2"),
   WithField(App1, "InstanceType", "t2.large"),
   WithField(App1, "InstanceID", "i-2"),
   WithField(App1, "SecurityGroups", <<"sg-2", "sg-1">>),
   WithField(App1, "SecurityGroups", <<"sg-1">>),
   WithField(App1, "SecurityGroups", <<"sg-1", "sg-3">>),
   WithField(App1, "Tags", Tags3("app1", "dev", "teamA")),
   WithField(App1, "Tags", Tags3("app1", "prod", "")),
   WithField(App1, "Tags", ("Name" :> "app1") @@ ("Env" :> "prod")),
   WithField(App1, "Tags", ("Name" :> "app1")),
   WithField(App1, "Tags", Tags3("app2", "prod", "teamA")),
   WithField(App1, "RootBlockDevice", [VolumeSize |-> 16, VolumeType |-> "gp2"]),
   WithField(App1, "RootBlockDevice", [VolumeSize |-> 8, VolumeType |-> "gp3"]),
   App1Drifted}

NoOwner == WithField(App1, "Tags", ("Name" :> "app1") @@ ("Env" :> "prod"))
EmptyOwner == WithField(App1, "Tags", Tags3("app1", "prod", ""))

\* the same security groups, each a different number of times
Sg112 == WithField(App1, "SecurityGroups", <<"sg-1", "sg-1", "sg-2">>)
Sg122 == WithField(App1, "SecurityGroups", <<"sg-2", "sg-1", "sg-2">>)

CmpPairs ==
  {<<App1, v>> : v \in CmpVariants} \cup {<<v, App1>> : v \in CmpVariants}
  \cup {<<NoOwner, NoOwner>>, <<NoOwner, EmptyOwner>>, <<EmptyOwner, NoOwner>>}
  \cup {<<Sg112, Sg122>>, <<Sg112, WithField(App1, "SecurityGroups", <<"sg-1", "sg-2", "sg-1">>)>>}
  \cup {<<App1, App2>>, <<App2, App1>>}

Paths == DOMAIN Split

CmpAttrLists == SeqsUpTo(Paths, MaxAttrs)

\* ------------------------------------------------------------------ state
VARIABLES
  oldState, currentState, attributes,  \* the arguments of Detect
  ctxDone,                             \* ctx.Done() is closed
  cancelledBeforeCall,                 \* ctx was cancelled when Detect was called
  pc,                                  \* position of Detect's own goroutine
  oldMap, currMap,                     \* the two indexes
  oldIter, currIter,                   \* keys the two range loops have yet to visit
  tasks,                               \* the goroutines started, in start order
  wg,                                  \* the WaitGroup counter
  reportChan, closed,                  \* the buffered channel and whether it is closed
  driftReports,                        \* the slice Detect returns
  panicked,                            \* a send on the closed channel happened
  dropped,                             \* tasks whose sendReport took the ctx.Done case
  run, firstResult,                    \* repeated invocation (SpecRerun)
  handler,                             \* one request in DriftHandler.HandleDrift
  app,                                 \* one call of App.Run
  legacy                               \* one call of the legacy comparator.DetectDrift

vars ==
  <<oldState, currentState, attributes, ctxDone, cancelledBeforeCall, pc, oldMap,
    currMap, oldIter, currIter, tasks, wg, reportChan, closed, driftReports,
    panicked, dropped, run, firstResult, handler, app, legacy>>

\* The state of one call of driftchecker.Detect.
detectVars ==
  <<oldState, currentState, attributes, ctxDone, cancelledBeforeCall, pc, oldMap,
    currMap, oldIter, currIter, tasks, wg, reportChan, closed, driftReports,
    panicked, dropped, run, firstResult>>

\* The components Detect does not call are at rest while Detect runs.
Idle == [pc |-> "idle"]

others == <<handler, app, legacy>>

inputs == <<oldState, currentState, attributes>>

\* (mutant) the buffer sized to one collection only
ChanCapOldOnly == Len(oldState)

\* (mutant) the buffer sized to the other collection only
ChanCapCurrentOnly == Len(currentState)

\* make(chan DriftReport, len(oldState)+len(currentState))
ChanCap == Len(oldState) + Len(currentState)

NoResult == [returned |-> FALSE, reports |-> {}]

Entry(cancelled) ==
  /\ ctxDone = cancelled
  /\ cancelledBeforeCall = cancelled
  /\ pc = "index"
  /\ oldMap = <<>> /\ currMap = <<>>
  /\ oldIter = {} /\ currIter = {}
  /\ tasks = <<>>
  /\ wg = 0
  /\ reportChan = <<>> /\ closed = FALSE
  /\ driftReports = <<>>
  /\ panicked = FALSE
  /\ dropped = {}

\* Scheduling inputs: up to MaxRecs records, with shared and missing names.
Init ==
  /\ \E io \in SchedInputs : oldState = io[1] /\ currentState = io[2]
  /\ attributes \in SchedAttrLists
  /\ \E cancelled \in BOOLEAN : Entry(cancelled)
  /\ run = 1 /\ firstResult = NoResult
  /\ handler = Idle /\ app = Idle /\ legacy = Idle

\* a record with a nil tag map
NoTags == WithField(App1, "Tags", <<>>)

NamelessInstances == {App1, App1Drifted, Unnamed, NoTags}

NamelessInputs ==
  {io \in SeqsUpTo(NamelessInstances, MaxRecs) \X SeqsUpTo(NamelessInstances, MaxRecs) :
     Len(io[1]) + Len(io[2]) <= MaxRecs}

\* Inputs with records that carry no Name tag, or no tag at all.
InitNameless ==
  /\ \E io \in NamelessInputs : oldState = io[1] /\ currentState = io[2]
  /\ attributes \in SchedAttrLists
  /\ \E cancelled \in BOOLEAN : Entry(cancelled)
  /\ run = 1 /\ firstResult = NoResult
  /\ handler = Idle /\ app = Idle /\ legacy = Idle

\* Comparison inputs: one pair of records, every attribute-path list up to MaxAttrs.
InitCmp ==
  /\ \E p \in CmpPairs : oldState = <<p[1]>> /\ currentState = <<p[2]>>
  /\ attributes \in CmpAttrLists
  /\ Entry(FALSE)
  /\ run = 1 /\ firstResult = NoResult
  /\ handler = Idle /\ app = Idle /\ legacy = Idle


\* ------------------------------------------------------ Detect's goroutine
\* driftchecker.go:31-42
BuildIndex ==
  /\ pc = "index"
  /\ oldMap' = IndexByName(oldState)
  /\ currMap' = IndexByName(currentState)
  /\ oldIter' = DOMAIN IndexByName(oldState)
  /\ currIter' = DOMAIN IndexByName(currentState)
  /\ pc' = "dispatch"
  /\ UNCHANGED <<inputs, ctxDone, cancelledBeforeCall, tasks, wg, reportChan, closed,
                 driftReports, panicked, dropped, run, firstResult, others>>

Task(kind, n, o, c) ==
  [kind |-> kind, n |-> n, o |-> o, c |-> c, st |-> "start", r |-> Nil]

\* (mutant) the break leaves the loop
LoopStopsWhenDone(done) == done

\* The select at the head of the first loop: its break leaves the select, not the
\* loop, so the iteration goes on whether or not ctx is done.
LoopStops(done) == FALSE

\* One iteration of "for name, oldInst := range oldMap" (driftchecker.go:54-161).
RangeOld(name) ==
  /\ pc = "dispatch"
  /\ name \in oldIter
  /\ IF LoopStops(ctxDone)
     THEN /\ oldIter' = {}
          /\ UNCHANGED <<tasks, wg>>
     ELSE /\ oldIter' = oldIter \ {name}
          /\ wg' = wg + 1
          /\ tasks' = Append(tasks,
                        IF name \notin DOMAIN currMap
                        THEN Task("removed", name, oldMap[name], Nil)
                        ELSE Task("matched", name, oldMap[name], currMap[name]))
  /\ UNCHANGED <<inputs, ctxDone, cancelledBeforeCall, pc, oldMap, currMap, currIter,
                 reportChan, closed, driftReports, panicked, dropped, run, firstResult, others>>

\* One iteration of "for name, currInst := range currMap" (driftchecker.go:163-181).
RangeCurr(name) ==
  /\ pc = "dispatch"
  /\ oldIter = {}
  /\ name \in currIter
  /\ currIter' = currIter \ {name}
  /\ IF name \notin DOMAIN oldMap
     THEN /\ wg' = wg + 1
          /\ tasks' = Append(tasks, Task("added", name, Nil, currMap[name]))
     ELSE UNCHANGED <<tasks, wg>>
  /\ UNCHANGED <<inputs, ctxDone, cancelledBeforeCall, pc, oldMap, currMap, oldIter,
                 reportChan, closed, driftReports, panicked, dropped, run, firstResult, others>>

\* (mutant) no join: Detect goes on to close the channel at once
WaitReturnsAtOnce(counter) == TRUE

\* wg.Wait() returns when the counter is zero.
WaitReturns(counter) == counter = 0

\* driftchecker.go:183
Wait ==
  /\ pc = "dispatch"
  /\ oldIter = {} /\ currIter = {}
  /\ WaitReturns(wg)
  /\ pc' = "close"
  /\ UNCHANGED <<inputs, ctxDone, cancelledBeforeCall, oldMap, currMap, oldIter,
                 currIter, tasks, wg, reportChan, closed, driftReports, panicked,
                 dropped, run, firstResult, others>>

\* driftchecker.go:184
Close ==
  /\ pc = "close"
  /\ closed' = TRUE
  /\ pc' = "drain"
  /\ UNCHANGED <<inputs, ctxDone, cancelledBeforeCall, oldMap, currMap, oldIter,
                 currIter, tasks, wg, reportChan, driftReports, panicked, dropped,
                 run, firstResult, others>>

\* (mutant) the slice is replaced, not extended
CollectOverwrites(reports, rep) == <<rep>>

\* (mutant) the report received is not kept
CollectSkips(reports, rep) == reports

\* append(driftReports, rep)
Collect(reports, rep) == Append(reports, rep)

\* One iteration of "for rep := range reportChan" (driftchecker.go:188-190).
Drain ==
  /\ pc = "drain"
  /\ reportChan # <<>>
  /\ driftReports' = Collect(driftReports, Head(reportChan))
  /\ reportChan' = Tail(reportChan)
  /\ UNCHANGED <<inputs, ctxDone, cancelledBeforeCall, pc, oldMap, currMap, oldIter,
                 currIter, tasks, wg, closed, panicked, dropped, run, firstResult, others>>

\* The range loop ends on the closed, empty channel; Detect returns (driftchecker.go:192).
Return ==
  /\ pc = "drain"
  /\ reportChan = <<>>
  /\ closed
  /\ pc' = "done"
  /\ UNCHANGED <<inputs, ctxDone, cancelledBeforeCall, oldMap, currMap, oldIter,
                 currIter, tasks, wg, reportChan, closed, driftReports, panicked,
                 dropped, run, firstResult, others>>

\* ------------------------------------------------------------ the goroutines
\* (mutant) the comparison loop may stop early and report the details found so far
TaskReportsPartial(t) ==
  CASE t.kind = "removed" -> {RemovedReport(t.o, t.n)}
    [] t.kind = "added" -> {AddedReport(t.c, t.n)}
    [] t.kind = "matched" ->
         UNION {{MatchedReport(t.o, t.n, SubSeq(d, 1, k)) : k \in 0..Len(d)} :
                  d \in CompareAll(t.o, t.c, attributes)}

\* (mutant) the report of a matched pair carries the current record's identifier
TaskReportsCurrentID(t) ==
  CASE t.kind = "removed" -> {RemovedReport(t.o, t.n)}
    [] t.kind = "added" -> {AddedReport(t.c, t.n)}
    [] t.kind = "matched" ->
         {MatchedReport(t.c, t.n, d) : d \in CompareAll(t.o, t.c, attributes)}

\* The reports a task can build once it is past its first ctx check.
TaskReports(t) ==
  CASE t.kind = "removed" -> {RemovedReport(t.o, t.n)}
    [] t.kind = "added" -> {AddedReport(t.c, t.n)}
    [] t.kind = "matched" ->
         {MatchedReport(t.o, t.n, d) : d \in CompareAll(t.o, t.c, attributes)}

\* (mutant) the report is sent even with no detail
EmitsAlways(t, rep) == TRUE

\* if len(drifts) > 0 (driftchecker.go:157); the one-sided tasks always send.
Emits(t, rep) == t.kind # "matched" \/ Len(rep.Drifts) > 0

\* The goroutine of a matched pair calls equalStringSlices when a path of the
\* security_groups family is in the list (driftchecker.go:105-106).
ComparesSecurityGroups(t) ==
  /\ t.kind = "matched"
  /\ \E k \in DOMAIN attributes : Split[attributes[k]][1] = "security_groups"

\* The caller's collection after equalStringSlices ran on the list of inst, whose
\* backing array the indexed copy shares with the caller's record: the lists are
\* touched only past the length test (driftchecker.go:197-203).
AfterCompare(state, inst, other) ==
  [i \in DOMAIN state |->
     IF state[i] = inst /\ Len(inst.SecurityGroups) = Len(other.SecurityGroups)
     THEN [state[i] EXCEPT !.SecurityGroups = ArgumentAfterSort(@)]
     ELSE state[i]]

\* (mutant) the goroutine does not look at ctx before it works
StartCheckSkipped(done) == FALSE

\* The first select of a goroutine: return when ctx is done (driftchecker.go:65-69,
\* 87-91, 168-172).
StartCheckReturns(done) == done

\* A goroutine from its start to its sendReport call, or to its return when ctx is
\* done or there is nothing to report.
TaskStart(i) ==
  /\ i \in DOMAIN tasks
  /\ tasks[i].st = "start"
  /\ IF StartCheckReturns(ctxDone)
     THEN /\ tasks' = [tasks EXCEPT ![i].st = "done"]
          /\ wg' = wg - 1
     ELSE \E rep \in TaskReports(tasks[i]) :
            IF Emits(tasks[i], rep)
            THEN /\ tasks' = [tasks EXCEPT ![i].st = "send", ![i].r = rep]
                 /\ UNCHANGED wg
            ELSE /\ tasks' = [tasks EXCEPT ![i].st = "done"]
                 /\ wg' = wg - 1
  /\ IF ~StartCheckReturns(ctxDone) /\ ComparesSecurityGroups(tasks[i])
     THEN /\ oldState' = AfterCompare(oldState, tasks[i].o, tasks[i].c)
          /\ currentState' = AfterCompare(currentState, tasks[i].c, tasks[i].o)
     ELSE UNCHANGED <<oldState, currentState>>
  /\ UNCHANGED <<attributes, ctxDone, cancelledBeforeCall, pc, oldMap, currMap, oldIter,
                 currIter, reportChan, closed, driftReports, panicked, dropped, run,
                 firstResult, others>>

\* (mutant) the second case of the select is always ready, as a default case is
SelectReadyAnyCase(chanLen, done) ==
  (IF chanLen < ChanCap \/ closed THEN {"send"} ELSE {}) \cup {"done"}

\* The cases of sendReport's select that can proceed (driftchecker.go:47-52): the
\* send when the buffer has room (or the channel is closed, where it panics), the
\* receive from ctx.Done() when ctx is done. Go picks among the ready cases at random.
SelectReady(chanLen, done) ==
  (IF chanLen < ChanCap \/ closed THEN {"send"} ELSE {}) \cup
  (IF done THEN {"done"} ELSE {})

\* sendReport and the deferred wg.Done().
TaskSend(i) ==
  /\ i \in DOMAIN tasks
  /\ tasks[i].st = "send"
  /\ \E case \in SelectReady(Len(reportChan), ctxDone) :
       IF case = "send"
       THEN /\ IF closed
               THEN panicked' = TRUE /\ UNCHANGED reportChan
               ELSE reportChan' = Append(reportChan, tasks[i].r) /\ UNCHANGED panicked
            /\ UNCHANGED dropped
       ELSE /\ dropped' = dropped \cup {i}
            /\ UNCHANGED <<reportChan, panicked>>
  /\ tasks' = [tasks EXCEPT ![i].st = "done"]
  /\ wg' = wg - 1
  /\ UNCHANGED <<inputs, ctxDone, cancelledBeforeCall, pc, oldMap, currMap, oldIter,
                 currIter, closed, driftReports, run, firstResult, others>>

\* ------------------------------------------------------------ environment
\* The caller cancels ctx while Detect runs.
Cancel ==
  /\ ~ctxDone
  /\ pc # "done"
  /\ ctxDone' = TRUE
  /\ UNCHANGED <<inputs, cancelledBeforeCall, pc, oldMap, currMap, oldIter, currIter,
                 tasks, wg, reportChan, closed, driftReports, panicked, dropped, run,
                 firstResult, others>>

Next ==
  \/ BuildIndex
  \/ \E name \in DOMAIN oldMap : RangeOld(name)
  \/ \E name \in DOMAIN currMap : RangeCurr(name)
  \/ Wait
  \/ Close
  \/ Drain
  \/ Return
  \/ \E i \in DOMAIN tasks : TaskStart(i)
  \/ \E i \in DOMAIN tasks : TaskSend(i)
  \/ Cancel

\* The caller invokes Detect again on the same inputs, with a fresh context, and
\* keeps what the first uncancelled invocation returned.
DetectAgain ==
  /\ pc = "done"
  /\ run < MaxRuns
  /\ run' = run + 1
  /\ firstResult' = IF ~firstResult.returned /\ ~ctxDone
                    THEN [returned |-> TRUE, reports |-> Range(driftReports)]
                    ELSE firstResult
  /\ ctxDone' = FALSE /\ cancelledBeforeCall' = FALSE
  /\ pc' = "index"
  /\ oldMap' = <<>> /\ currMap' = <<>>
  /\ oldIter' = {} /\ currIter' = {}
  /\ tasks' = <<>>
  /\ wg' = 0
  /\ reportChan' = <<>> /\ closed' = FALSE
  /\ driftReports' = <<>>
  /\ panicked' = FALSE
  /\ dropped' = {}
  /\ UNCHANGED <<inputs, others>>

NextRerun == Next \/ DetectAgain

\* Detect's goroutine and every goroutine it starts keep being scheduled; the
\* caller is under no obligation to cancel.
DetectStep ==
  \/ BuildIndex
  \/ \E name \in DOMAIN oldMap : RangeOld(name)
  \/ \E name \in DOMAIN currMap : RangeCurr(name)
  \/ Wait
  \/ Close
  \/ Drain
  \/ Return

TaskStep(i) == TaskStart(i) \/ TaskSend(i)

Fairness ==
  /\ WF_vars(DetectStep)
  /\ \A i \in 1..MaxRecs : WF_vars(TaskStep(i))

\* Scheduling inputs.
Spec == Init /\ [][Next]_vars

\* Scheduling inputs under fair scheduling.
FairSpec == Init /\ [][Next]_vars /\ Fairness

\* Comparison inputs.
SpecCmp == InitCmp /\ [][Next]_vars

\* Scheduling inputs, Detect invoked MaxRuns times.
SpecRerun == Init /\ [][NextRerun]_vars

\* Inputs with nameless records.
SpecNameless == InitNameless /\ [][Next]_vars

\* ------------------------------------------------- vocabulary of the claims
\* The identity keys of a collection and the record a key stands for, read off
\* the input collection itself.
HasName(inst) == "Name" \in DOMAIN inst.Tags

NamesOf(state) == {state[i].Tags["Name"] : i \in {j \in DOMAIN state : HasName(state[j])}}

IsNamed(state, i, n) == HasName(state[i]) /\ state[i].Tags["Name"] = n

LastNamed(state, n) ==
  state[CHOOSE i \in DOMAIN state :
          IsNamed(state, i, n) /\ \A j \in DOMAIN state : j > i => ~IsNamed(state, j, n)]

OnlyPrevious == NamesOf(oldState) \ NamesOf(currentState)
OnlyCurrent == NamesOf(currentState) \ NamesOf(oldState)
InBoth == NamesOf(oldState) \cap NamesOf(currentState)

ResultFor(n) == {i \in DOMAIN driftReports : driftReports[i].Name = n}

Returned == pc = "done"
Uncancelled == ~ctxDone

\* C1: in an uncancelled run every key only in the previous collection has exactly
\* one report, whose single detail is instance_removed with the previous record as
\* expected and null as actual; every key only in the current collection has exactly
\* one report, whose single detail is instance_added with null as expected and the
\* current record as actual; whatever the attribute-path list.
C1_AddRemoveReported ==
  (Returned /\ Uncancelled) =>
    /\ \A n \in OnlyPrevious :
         /\ Cardinality(ResultFor(n)) = 1
         /\ \A i \in ResultFor(n) :
              driftReports[i].Drifts =
                <<[Attribute |-> "instance_removed",
                   ExpectedValue |-> InstanceValue(LastNamed(oldState, n)),
                   ActualValue |-> Nil]>>
    /\ \A n \in OnlyCurrent :
         /\ Cardinality(ResultFor(n)) = 1
         /\ \A i \in ResultFor(n) :
              driftReports[i].Drifts =
                <<[Attribute |-> "instance_added",
                   ExpectedValue |-> Nil,
                   ActualValue |-> InstanceValue(LastNamed(currentState, n))]>>

C1_Witness ==
  /\ Returned /\ Uncancelled
  /\ OnlyPrevious # {} /\ OnlyCurrent # {}
  /\ attributes # <<>>
  /\ Len(driftReports) = 2

\* Whether two records agree on what an attribute path selects: the scalar, the
\* list, the tag map or one of its keys (present on both sides with one value, or
\* absent from both), the root volume or one of its fields. A path of an unknown
\* family selects nothing.
SameTag(o, c, k) ==
  /\ (k \in DOMAIN o.Tags) = (k \in DOMAIN c.Tags)
  /\ (k \in DOMAIN o.Tags => o.Tags[k] = c.Tags[k])

SameOnPath(o, c, attr) ==
  LET parts == Split[attr]
  IN  CASE parts[1] = "ami" -> o.AMI = c.AMI
        [] parts[1] = "instance_type" -> o.InstanceType = c.InstanceType
        [] parts[1] = "security_groups" -> o.SecurityGroups = c.SecurityGroups
        [] parts[1] = "tags" ->
             IF Len(parts) > 1 THEN SameTag(o, c, parts[2]) ELSE o.Tags = c.Tags
        [] parts[1] = "root_block_device" -> o.RootBlockDevice = c.RootBlockDevice
        [] OTHER -> TRUE

SameOnAll(o, c, attrs) == \A i \in DOMAIN attrs : SameOnPath(o, c, attrs[i])

\* C2: for a key in both collections whose two records are identical on every
\* requested attribute path, Detect returns no report.
C2_NoDriftIdempotence ==
  Returned =>
    \A n \in InBoth :
      SameOnAll(LastNamed(oldState, n), LastNamed(currentState, n), attributes)
        => ResultFor(n) = {}

\* C3: for a key in both collections an uncancelled run returns exactly one report
\* when some requested path yields a detail, carrying the details of all the
\* requested paths in one Drifts list, and no report when none does.
C3_OneReportPerDriftedPair ==
  (Returned /\ Uncancelled) =>
    \A n \in InBoth :
      LET o == LastNamed(oldState, n)
          c == LastNamed(currentState, n)
          details == CompareAll(o, c, attributes)
      IN  IF \E i \in DOMAIN attributes : AttrDrifts(o, c, attributes[i]) # {<<>>}
          THEN /\ Cardinality(ResultFor(n)) = 1
               /\ \A i \in ResultFor(n) :
                    /\ driftReports[i].Drifts \in details
                    /\ driftReports[i].Drifts # <<>>
                    /\ (/\ attributes = <<"ami", "instance_type">>
                        /\ o.AMI # c.AMI /\ o.InstanceType # c.InstanceType)
                         => driftReports[i].Drifts =
                              <<[Attribute |-> "ami",
                                 ExpectedValue |-> <<"string", o.AMI>>,
                                 ActualValue |-> <<"string", c.AMI>>],
                                [Attribute |-> "instance_type",
                                 ExpectedValue |-> <<"string", o.InstanceType>>,
                                 ActualValue |-> <<"string", c.InstanceType>>]>>
          ELSE ResultFor(n) = {}

C3_Witness ==
  /\ Returned /\ Uncancelled
  /\ attributes = <<"ami", "instance_type">>
  /\ \E i \in DOMAIN driftReports :
       /\ driftReports[i].Name \in InBoth
       /\ Len(driftReports[i].Drifts) = 2

\* C4: called with an already cancelled context, Detect never posts, never panics
\* and returns the empty collection.
C4_PreCancelledEmpty ==
  cancelledBeforeCall =>
    /\ reportChan = <<>>
    /\ driftReports = <<>>
    /\ ~panicked

C4_Witness ==
  /\ Returned /\ cancelledBeforeCall
  /\ oldState # <<>> /\ currentState # <<>>
  /\ OnlyPrevious # {}
  /\ \E n \in InBoth :
       <<>> \notin CompareAll(LastNamed(oldState, n), LastNamed(currentState, n), attributes)

\* C5 as stated: a task that reaches sendReport when ctx is done never places its
\* report on the channel.
C5_DroppedWheneverCancelled ==
  [][\A i \in DOMAIN tasks :
       (tasks[i].st = "send" /\ ctxDone /\ tasks'[i].st = "done")
         => reportChan' = reportChan]_vars

\* C5 amended: a task that finds ctx done at its first check never posts; in
\* sendReport a report is dropped only when ctx is done, and then the select may
\* as well post it while the buffer has room; a dropped report is on the channel
\* and in the result never.
C5_DroppedOnlyWhenCancelled ==
  /\ [][\A i \in DOMAIN tasks :
          /\ (tasks[i].st = "start" /\ ctxDone /\ tasks'[i].st # "start")
               => (tasks'[i].st = "done" /\ reportChan' = reportChan)
          /\ (tasks[i].st = "send" /\ tasks'[i].st = "done" /\ reportChan' = reportChan)
               => ctxDone]_vars
  /\ [](\A i \in dropped :
          /\ ctxDone
          /\ \A j \in DOMAIN reportChan : reportChan[j].Name # tasks[i].n
          /\ \A j \in DOMAIN driftReports : driftReports[j].Name # tasks[i].n)

C5_Witness ==
  /\ Returned /\ ctxDone /\ ~cancelledBeforeCall
  /\ dropped # {}
  /\ driftReports # <<>>

\* Every report an uncancelled run can return for the inputs.
UncancelledReports ==
  {DriftReport(LastNamed(oldState, n).InstanceID, n,
               <<DriftDetail("instance_removed",
                             InstanceValue(LastNamed(oldState, n)), Nil)>>) :
     n \in OnlyPrevious}
  \cup
  {DriftReport(LastNamed(currentState, n).InstanceID, n,
               <<DriftDetail("instance_added", Nil,
                             InstanceValue(LastNamed(currentState, n)))>>) :
     n \in OnlyCurrent}
  \cup
  UNION {{DriftReport(LastNamed(oldState, n).InstanceID, n, d) :
            d \in CompareAll(LastNamed(oldState, n), LastNamed(currentState, n),
                             attributes) \ {<<>>}} :
         n \in InBoth}

\* C6: whenever cancellation fires, the reports Detect returns are among those an
\* uncancelled run on the same inputs returns, each key at most once.
C6_CancelledSubset ==
  Returned =>
    /\ Range(driftReports) \subseteq UncancelledReports
    /\ \A n \in NamesOf(oldState) \cup NamesOf(currentState) :
         Cardinality(ResultFor(n)) <= 1

C6_Witness ==
  /\ Returned /\ ctxDone /\ ~cancelledBeforeCall
  /\ driftReports # <<>>
  /\ Range(driftReports) # UncancelledReports
  /\ Len(tasks) = 2

\* C7: Detect returns, without a panic, under any cancellation timing, and no
\* task is ever stuck in sendReport: the send or the ctx.Done case can proceed.
TaskBlocked(i) ==
  /\ tasks[i].st = "send"
  /\ SelectReady(Len(reportChan), ctxDone) = {}

C7_DetectTerminates ==
  /\ <>(pc = "done" /\ ~panicked /\ wg = 0 /\ closed /\ reportChan = <<>>
        /\ \A i \in DOMAIN tasks : tasks[i].st = "done")
  /\ [](\A i \in DOMAIN tasks : ~TaskBlocked(i))

C7_Witness ==
  /\ Returned /\ ctxDone /\ ~cancelledBeforeCall
  /\ Len(tasks) = 2
  /\ Len(driftReports) = 1

\* C8: the reports posted never exceed len(oldState)+len(currentState), and while
\* ctx is not done the send case of a task in sendReport can always proceed.
C8_PostsWithinCapacity ==
  /\ Len(reportChan) + Len(driftReports) <= Len(oldState) + Len(currentState)
  /\ Uncancelled =>
       \A i \in DOMAIN tasks :
         tasks[i].st = "send" => "send" \in SelectReady(Len(reportChan), ctxDone)

C8_Witness ==
  /\ Uncancelled
  /\ Len(reportChan) = Len(oldState) + Len(currentState)
  /\ Len(reportChan) >= 2

\* C9: the channel is closed, and the aggregation loop runs, only when every
\* range loop has ended and every task has finished; no task sends on the closed
\* channel.
C9_ClosedAfterJoin ==
  /\ ~panicked
  /\ (closed \/ pc \in {"drain", "done"}) =>
       /\ oldIter = {} /\ currIter = {}
       /\ wg = 0
       /\ \A i \in DOMAIN tasks : tasks[i].st = "done"
       /\ Len(tasks) = Cardinality(NamesOf(oldState) \cup NamesOf(currentState))
  /\ pc \in {"index", "dispatch", "close"} => (~closed /\ driftReports = <<>>)

C9_Witness ==
  /\ closed /\ pc = "drain"
  /\ Len(tasks) = 2
  /\ Len(reportChan) = 2

\* C10 as stated: with fixed inputs and no cancellation every invocation returns
\* the same set of reports.
C10_SameReportSet ==
  (Returned /\ Uncancelled /\ firstResult.returned) =>
    Range(driftReports) = firstResult.reports

Count(seq, e) == Cardinality({i \in DOMAIN seq : seq[i] = e})

SameUpToDetailOrder(r1, r2) ==
  /\ r1.Name = r2.Name
  /\ r1.InstanceID = r2.InstanceID
  /\ Len(r1.Drifts) = Len(r2.Drifts)
  /\ \A d \in Range(r1.Drifts) : Count(r1.Drifts, d) = Count(r2.Drifts, d)

\* C10 amended: with fixed inputs and no cancellation every invocation returns
\* the same reports (identity, resource identifier, details) up to the order of
\* the reports and the order of the details inside a report.
C10_SameReportsUpToOrder ==
  (Returned /\ Uncancelled /\ firstResult.returned) =>
    /\ Len(driftReports) = Cardinality(firstResult.reports)
    /\ \A i \in DOMAIN driftReports :
         \E r \in firstResult.reports : SameUpToDetailOrder(driftReports[i], r)
    /\ \A r \in firstResult.reports :
         \E i \in DOMAIN driftReports : SameUpToDetailOrder(driftReports[i], r)

C10_Witness ==
  /\ Returned /\ Uncancelled /\ firstResult.returned
  /\ Range(driftReports) # firstResult.reports
  /\ Len(driftReports) = 2

\* The reports an uncancelled run returns for the collections old and curr, and
\* the keys that have one.
ReportsOf(old, curr, attrs) ==
  {DriftReport(LastNamed(old, n).InstanceID, n,
               <<DriftDetail("instance_removed", InstanceValue(LastNamed(old, n)), Nil)>>) :
     n \in NamesOf(old) \ NamesOf(curr)}
  \cup
  {DriftReport(LastNamed(curr, n).InstanceID, n,
               <<DriftDetail("instance_added", Nil, InstanceValue(LastNamed(curr, n)))>>) :
     n \in NamesOf(curr) \ NamesOf(old)}
  \cup
  UNION {{DriftReport(LastNamed(old, n).InstanceID, n, d) :
            d \in CompareAll(LastNamed(old, n), LastNamed(curr, n), attrs) \ {<<>>}} :
         n \in NamesOf(old) \cap NamesOf(curr)}

ReportedNames(old, curr, attrs) == {r.Name : r \in ReportsOf(old, curr, attrs)}

AllNames == NamesOf(oldState) \cup NamesOf(currentState)

\* C11 as stated: every key of the union has a report in the result unless ctx
\* was cancelled while Detect ran.
C11_EveryKeyReported ==
  Returned =>
    \A n \in AllNames : ResultFor(n) # {} \/ (ctxDone /\ ~cancelledBeforeCall)

\* C11 amended: a key has a report in the result exactly when it is in one map
\* only or its pair yields a detail, unless ctx is done, whether cancelled before
\* the call or during it; then the report may be missing. A matched key whose
\* pair yields no detail has no report.
C11_DriftedKeysReported ==
  Returned =>
    \A n \in AllNames :
      IF n \in ReportedNames(oldState, currentState, attributes)
      THEN Cardinality(ResultFor(n)) = 1 \/ (ctxDone /\ ResultFor(n) = {})
      ELSE ResultFor(n) = {}

C11_Witness ==
  /\ Returned /\ Uncancelled
  /\ \E n \in InBoth : ResultFor(n) = {}
  /\ \E n \in AllNames : ResultFor(n) # {}

\* C12: a record without the Name tag, or with no tag map, is not indexed, starts
\* no task, is in no report, and the result is the one of the collections without it.
Nameless(state) == {state[i] : i \in {j \in DOMAIN state : ~HasName(state[j])}}

Named(state) == SelectSeq(state, HasName)

DetailValues(reports) ==
  UNION {UNION {{r.Drifts[k].ExpectedValue, r.Drifts[k].ActualValue} :
                  k \in DOMAIN r.Drifts} : r \in Range(reports)}

C12_NamelessExcluded ==
  /\ \A i \in DOMAIN tasks : tasks[i].n \in AllNames
  /\ Len(tasks) <= Cardinality(AllNames)
  /\ \A x \in Nameless(oldState) \cup Nameless(currentState) :
       InstanceValue(x) \notin DetailValues(reportChan \o driftReports)
  /\ Returned =>
       /\ Range(driftReports) \subseteq
            ReportsOf(Named(oldState), Named(currentState), attributes)
       /\ Uncancelled =>
            {driftReports[i].Name : i \in DOMAIN driftReports} =
              ReportedNames(Named(oldState), Named(currentState), attributes)

C12_Witness ==
  /\ Returned /\ Uncancelled
  /\ NoTags \in Range(oldState)
  /\ Unnamed \in Range(currentState)
  /\ driftReports # <<>>

\* C13: of the records of one collection that share a Name only the last takes
\* part: the result is the one of the collections without the earlier ones, and a
\* Name has at most one report.
RECURSIVE KeepLast(_)
KeepLast(state) ==
  IF state = <<>> THEN <<>>
  ELSE IF HasName(Head(state))
          /\ \E j \in 2..Len(state) : IsNamed(state, j, Head(state).Tags["Name"])
       THEN KeepLast(Tail(state))
       ELSE <<Head(state)>> \o KeepLast(Tail(state))

C13_LastOfANameWins ==
  /\ \A i \in DOMAIN tasks :
       /\ tasks[i].kind \in {"removed", "matched"} =>
            tasks[i].o \in Range(KeepLast(oldState))
       /\ tasks[i].kind \in {"added", "matched"} =>
            tasks[i].c \in Range(KeepLast(currentState))
  /\ Returned =>
       /\ \A n \in AllNames : Cardinality(ResultFor(n)) <= 1
       /\ Range(driftReports) \subseteq
            ReportsOf(KeepLast(oldState), KeepLast(currentState), attributes)
       /\ Uncancelled =>
            {driftReports[i].Name : i \in DOMAIN driftReports} =
              ReportedNames(KeepLast(oldState), KeepLast(currentState), attributes)

C13_Witness ==
  /\ Returned /\ Uncancelled
  /\ oldState = <<App1, App1Drifted>>
  /\ currentState = <<App1>>
  /\ Len(driftReports) = 1

\* C20: with the empty attribute list a key in both collections never has a
\* report, and in an uncancelled run every key in one collection only still has
\* its instance_removed or instance_added report.
C20_EmptyAttributeList ==
  (attributes = <<>>) =>
    /\ \A i \in DOMAIN reportChan : reportChan[i].Name \notin InBoth
    /\ \A n \in InBoth : ResultFor(n) = {}
    /\ (Returned /\ Uncancelled) =>
         /\ \A n \in OnlyPrevious :
              /\ Cardinality(ResultFor(n)) = 1
              /\ \A i \in ResultFor(n) :
                   /\ Len(driftReports[i].Drifts) = 1
                   /\ driftReports[i].Drifts[1].Attribute = "instance_removed"
         /\ \A n \in OnlyCurrent :
              /\ Cardinality(ResultFor(n)) = 1
              /\ \A i \in ResultFor(n) :
                   /\ Len(driftReports[i].Drifts) = 1
                   /\ driftReports[i].Drifts[1].Attribute = "instance_added"

C20_Witness ==
  /\ attributes = <<>>
  /\ Returned /\ Uncancelled
  /\ oldState = <<App1, App2>>
  /\ currentState = <<App1Drifted>>
  /\ Len(driftReports) = 1

\* ---------------------------------------------------- one matched pair
\* The details Detect returned for the single pair of records of the comparison
\* inputs, once an uncancelled run has returned.
Compared ==
  /\ Returned /\ Uncancelled
  /\ Len(oldState) = 1 /\ Len(currentState) = 1
  /\ InBoth # {}

PairDetails == IF driftReports = <<>> THEN <<>> ELSE driftReports[1].Drifts

NumNamed(details, a) == Cardinality({k \in DOMAIN details : details[k].Attribute = a})

Requested(path) == Count(attributes, path)

\* C14: the paths ami and instance_type each yield a detail exactly when the two
\* records' values are unequal, with the previous value as expected and the
\* current value as actual.
C14_ScalarInequality ==
  Compared =>
    LET o == oldState[1]
        c == currentState[1]
        d == PairDetails
        value == [ami |-> <<o.AMI, c.AMI>>,
                  instance_type |-> <<o.InstanceType, c.InstanceType>>]
    IN  \A path \in DOMAIN value :
          /\ NumNamed(d, path) =
               IF value[path][1] # value[path][2] THEN Requested(path) ELSE 0
          /\ \A k \in DOMAIN d :
               d[k].Attribute = path =>
                 /\ d[k].ExpectedValue = StringValue(value[path][1])
                 /\ d[k].ActualValue = StringValue(value[path][2])

C14_Witness ==
  /\ Compared
  /\ attributes = <<"instance_type", "ami">>
  /\ oldState[1].AMI # currentState[1].AMI
  /\ oldState[1].InstanceType = currentState[1].InstanceType
  /\ Len(PairDetails) = 1

\* C15: the security_groups comparison does not depend on the order of either
\* list: lists that are reorderings of each other yield no detail, any other two
\* lists yield one detail holding the two lists as given.
IsReordering(a, b) ==
  /\ Len(a) = Len(b)
  /\ \A e \in Range(a) \cup Range(b) : Count(a, e) = Count(b, e)

Reorderings(a) ==
  {[i \in DOMAIN a |-> a[f[i]]] :
     f \in {g \in [DOMAIN a -> DOMAIN a] : Range(g) = DOMAIN a}}

C15_SecurityGroupsUnordered ==
  Compared =>
    LET a == oldState[1].SecurityGroups
        b == currentState[1].SecurityGroups
        d == PairDetails
    IN  /\ \A p \in Reorderings(a) : \A q \in Reorderings(b) :
             equalStringSlices(p, q) = equalStringSlices(a, b)
        /\ NumNamed(d, "security_groups") =
             IF IsReordering(a, b) THEN 0 ELSE Requested("security_groups")
        /\ \A k \in DOMAIN d :
             d[k].Attribute = "security_groups" =>
               /\ d[k].ExpectedValue = StringsValue(a)
               /\ d[k].ActualValue = StringsValue(b)

C15_Witness ==
  /\ Compared
  /\ "security_groups" \in Range(attributes)
  /\ oldState[1].SecurityGroups = <<"sg-1", "sg-2">>
  /\ currentState[1].SecurityGroups = <<"sg-2", "sg-1">>
  /\ PairDetails = <<>>

\* C16: a path tags.K yields no detail when K is "Name"; otherwise it yields one
\* detail named tags.K exactly when K is missing from either tag map or the two
\* values differ, a missing side shown as ""; it reports no other key.
TagKeys == DOMAIN TagsDot

TagPaths == {TagsDot[k] : k \in TagKeys}

C16_TagsKey ==
  (Compared /\ "tags" \notin Range(attributes)) =>
    LET o == oldState[1]
        c == currentState[1]
        d == PairDetails
    IN  /\ \A K \in TagKeys :
             /\ NumNamed(d, TagsDot[K]) =
                  IF K # "Name"
                     /\ (\/ K \notin DOMAIN o.Tags
                         \/ K \notin DOMAIN c.Tags
                         \/ o.Tags[K] # c.Tags[K])
                  THEN Requested(TagsDot[K]) ELSE 0
             /\ \A k \in DOMAIN d :
                  d[k].Attribute = TagsDot[K] =>
                    /\ d[k].ExpectedValue =
                         StringValue(IF K \in DOMAIN o.Tags THEN o.Tags[K] ELSE "")
                    /\ d[k].ActualValue =
                         StringValue(IF K \in DOMAIN c.Tags THEN c.Tags[K] ELSE "")
        /\ \A k \in DOMAIN d :
             d[k].Attribute \in TagPaths => d[k].Attribute \in Range(attributes)

C16_Witness ==
  /\ Compared
  /\ attributes = <<"tags.Name", "tags.Owner">>
  /\ "Owner" \notin DOMAIN oldState[1].Tags
  /\ "Owner" \in DOMAIN currentState[1].Tags
  /\ currentState[1].Tags["Owner"] = ""
  /\ Len(PairDetails) = 1

\* C17: the path tags yields one detail named tags.<k> for exactly the keys k
\* other than "Name" of the previous tag map that are missing from, or have
\* another value in, the current tag map, a missing value shown as ""; a key
\* of the current tag map only yields none.
C17_TagsAll ==
  (Compared /\ Range(attributes) \cap TagPaths = {}) =>
    LET o == oldState[1]
        c == currentState[1]
        d == PairDetails
    IN  \A K \in TagKeys :
          /\ NumNamed(d, TagsDot[K]) =
               IF K # "Name" /\ K \in DOMAIN o.Tags
                  /\ (K \notin DOMAIN c.Tags \/ o.Tags[K] # c.Tags[K])
               THEN Requested("tags") ELSE 0
          /\ \A k \in DOMAIN d :
               d[k].Attribute = TagsDot[K] =>
                 /\ d[k].ExpectedValue = StringValue(o.Tags[K])
                 /\ d[k].ActualValue =
                      StringValue(IF K \in DOMAIN c.Tags THEN c.Tags[K] ELSE "")

C17_Witness ==
  /\ Compared
  /\ attributes = <<"tags">>
  /\ oldState[1] = App1Drifted
  /\ currentState[1] = App1
  /\ Len(PairDetails) = 1
  /\ PairDetails[1].Attribute = "tags.Env"

\* C18: root_block_device.volume_size and root_block_device.volume_type each
\* compare their own field only and root_block_device compares both: a field
\* yields a detail under its own name, with the previous and the current value,
\* exactly when it differs.
C18_RootBlockDevice ==
  Compared =>
    LET o == oldState[1].RootBlockDevice
        c == currentState[1].RootBlockDevice
        d == PairDetails
        size == "root_block_device.volume_size"
        type == "root_block_device.volume_type"
    IN  /\ NumNamed(d, size) =
             IF o.VolumeSize # c.VolumeSize
             THEN Requested(size) + Requested("root_block_device") ELSE 0
        /\ NumNamed(d, type) =
             IF o.VolumeType # c.VolumeType
             THEN Requested(type) + Requested("root_block_device") ELSE 0
        /\ NumNamed(d, "root_block_device") = 0
        /\ \A k \in DOMAIN d :
             /\ d[k].Attribute = size =>
                  /\ d[k].ExpectedValue = IntValue(o.VolumeSize)
                  /\ d[k].ActualValue = IntValue(c.VolumeSize)
             /\ d[k].Attribute = type =>
                  /\ d[k].ExpectedValue = StringValue(o.VolumeType)
                  /\ d[k].ActualValue = StringValue(c.VolumeType)

C18_Witness ==
  /\ Compared
  /\ attributes = <<"root_block_device", "root_block_device.volume_size">>
  /\ oldState[1].RootBlockDevice.VolumeType # currentState[1].RootBlockDevice.VolumeType
  /\ oldState[1].RootBlockDevice.VolumeSize = currentState[1].RootBlockDevice.VolumeSize
  /\ Len(PairDetails) = 1

\* C19: a path outside the vocabulary ami, instance_type, security_groups, tags,
\* tags.<key>, root_block_device, root_block_device.volume_size and
\* root_block_device.volume_type has no effect: the details are those of the
\* attribute list without it, and none is named by it.
Vocabulary ==
  {"ami", "instance_type", "security_groups", "tags", "root_block_device",
   "root_block_device.volume_size", "root_block_device.volume_type"} \cup TagPaths

InVocabulary(path) == path \in Vocabulary

C19_OtherPathsNoEffect ==
  Compared =>
    /\ PairDetails \in CompareAll(oldState[1], currentState[1],
                                   SelectSeq(attributes, InVocabulary))
    /\ \A k \in DOMAIN PairDetails : PairDetails[k].Attribute \in Vocabulary

\* C21: when the only record of the previous collection and the only record of
\* the current collection carry different Names, Detect returns one
\* instance_removed report under the previous Name and one instance_added report
\* under the current Name and nothing else, also when the two records are
\* otherwise identical.
Renamed ==
  /\ Len(oldState) = 1 /\ Len(currentState) = 1
  /\ HasName(oldState[1]) /\ HasName(currentState[1])
  /\ oldState[1].Tags["Name"] # currentState[1].Tags["Name"]

C21_RenameIsRemoveAndAdd ==
  (Returned /\ Uncancelled /\ Renamed) =>
    LET o == oldState[1]
        c == currentState[1]
    IN  /\ Len(driftReports) = 2
        /\ Range(driftReports) =
             {DriftReport(o.InstanceID, o.Tags["Name"],
                          <<DriftDetail("instance_removed", InstanceValue(o), Nil)>>),
              DriftReport(c.InstanceID, c.Tags["Name"],
                          <<DriftDetail("instance_added", Nil, InstanceValue(c))>>)}

C21_Witness ==
  /\ Returned /\ Uncancelled /\ Renamed
  /\ [currentState[1] EXCEPT !.Tags = oldState[1].Tags] = oldState[1]
  /\ Len(driftReports) = 2

\* C22: no step of Detect or of its tasks changes the two input collections
\* (the order of every security group list and every tag map included) or the
\* attribute list, and once the two indexes are built no step changes them.
C22_InputsAndIndexesUntouched ==
  [][/\ oldState' = oldState
     /\ currentState' = currentState
     /\ attributes' = attributes
     /\ pc # "index" => (oldMap' = oldMap /\ currMap' = currMap)]_vars

C22_Witness ==
  /\ Compared
  /\ "security_groups" \in Range(attributes)
  /\ oldState[1].SecurityGroups = <<"sg-2", "sg-1">>
  /\ currentState[1].SecurityGroups = <<"sg-1", "sg-2">>
  /\ \A i \in DOMAIN tasks : tasks[i].st = "done"

\* C23: the slice Detect builds followed by the reports still on the channel is
\* at every moment the sequence of the reports posted so far: it grows only by the
\* report of a task whose send succeeds, the aggregator moves reports from the
\* channel to the slice as they are, and Detect returns with the channel empty.
Aggregated == driftReports \o reportChan

C23_ReturnsWhatWasPosted ==
  /\ Aggregated = <<>>
  /\ [][\/ Aggregated' = Aggregated
        \/ \E i \in DOMAIN tasks :
             /\ tasks[i].st = "send" /\ tasks'[i].st = "done"
             /\ i \notin dropped'
             /\ Aggregated' = Append(Aggregated, tasks[i].r)]_vars
  /\ [][\A i \in DOMAIN tasks :
          (tasks[i].st = "send" /\ tasks'[i].st = "done" /\ i \notin dropped')
            => Aggregated' = Append(Aggregated, tasks[i].r)]_vars
  /\ [](Returned => reportChan = <<>>)

C23_Witness ==
  /\ Returned
  /\ Len(driftReports) = 2
  /\ driftReports[1] # driftReports[2]

\* C24: every key of the union of the two indexes gets one task, of the kind its
\* membership calls for, and no key gets two; this once dispatch is over, ctx
\* done or not.
TaskNames == {tasks[i].n : i \in DOMAIN tasks}

C24_OneTaskPerKey ==
  /\ \A i, j \in DOMAIN tasks : i # j => tasks[i].n # tasks[j].n
  /\ \A i \in DOMAIN tasks :
       tasks[i].kind = (IF tasks[i].n \in InBoth THEN "matched"
                        ELSE IF tasks[i].n \in OnlyPrevious THEN "removed"
                        ELSE "added")
  /\ TaskNames \subseteq AllNames
  /\ pc \notin {"index", "dispatch"} => TaskNames = AllNames

C24_Witness ==
  /\ cancelledBeforeCall
  /\ pc = "close"
  /\ Len(tasks) = 2

\* C25: in what Detect returns, cancelled or not, a key has at most one report,
\* every report has a detail, and every report's Name is a key of one of the indexes.
C25_ResultShape ==
  Returned =>
    /\ \A i, j \in DOMAIN driftReports :
         i # j => driftReports[i].Name # driftReports[j].Name
    /\ \A i \in DOMAIN driftReports :
         /\ Len(driftReports[i].Drifts) >= 1
         /\ driftReports[i].Name \in AllNames

C25_Witness ==
  /\ Returned /\ ctxDone
  /\ \E n \in InBoth : ResultFor(n) # {}
  /\ Len(driftReports) = 1
  /\ Cardinality(AllNames) = 2

\* C26: a report carries the resource identifier of the previous record when its
\* key is in the previous collection and of the current record otherwise; a
\* difference between the two identifiers of a matched pair yields no detail.
C26_IdentifierSource ==
  /\ Returned =>
       \A i \in DOMAIN driftReports :
         LET n == driftReports[i].Name
         IN  driftReports[i].InstanceID =
               IF n \in NamesOf(oldState) THEN LastNamed(oldState, n).InstanceID
               ELSE LastNamed(currentState, n).InstanceID
  /\ Compared =>
       /\ PairDetails \in
            CompareAll(oldState[1],
                       [currentState[1] EXCEPT !.InstanceID = oldState[1].InstanceID],
                       attributes)
       /\ \A k \in DOMAIN PairDetails :
            /\ PairDetails[k].ExpectedValue # StringValue(oldState[1].InstanceID)
            /\ PairDetails[k].ActualValue # StringValue(currentState[1].InstanceID)

C26_Witness ==
  /\ Compared
  /\ oldState[1].InstanceID # currentState[1].InstanceID
  /\ Len(driftReports) = 1
  /\ driftReports[1].InstanceID = oldState[1].InstanceID

\* C27: the details of a matched report are the details of the first path of the
\* attribute list, then those of the second, and so on, a path that is in the list
\* several times giving its details each time.
RECURSIVE InListOrder(_, _)
InListOrder(d, attrs) ==
  IF attrs = <<>> THEN d = <<>>
  ELSE \E k \in 0..Len(d) :
         /\ SubSeq(d, 1, k) \in CompareAll(oldState[1], currentState[1], <<Head(attrs)>>)
         /\ InListOrder(SubSeq(d, k + 1, Len(d)), Tail(attrs))

C27_DetailsInListOrder ==
  Compared => InListOrder(PairDetails, attributes)

C27_Witness ==
  /\ Compared
  /\ attributes = <<"instance_type", "ami">>
  /\ Len(PairDetails) = 2
  /\ PairDetails[1].Attribute = "instance_type"
  /\ PairDetails[2].Attribute = "ami"

\* ------------------------------------------------ DriftHandler.HandleDrift
\* validator.NewValidator: the attribute names the validator accepts.
validAttributes ==
  {"instance_type", "security_groups", "ami", "tags",
   "root_block_device.volume_size", "root_block_device.volume_type"}

\* AllAttributes: the valid names, sorted.
AllAttributes ==
  <<"ami", "instance_type", "root_block_device.volume_size",
    "root_block_device.volume_type", "security_groups", "tags">>

\* (mutant) every requested list passes
ValidateAttributesAcceptsAll(requested) == [ok |-> TRUE, attrs |-> requested]

\* ValidatorOptions.ValidateAttributes
ValidateAttributes(requested) ==
  IF Len(requested) = 0 THEN [ok |-> TRUE, attrs |-> AllAttributes]
  ELSE IF \E k \in DOMAIN requested : requested[k] \notin validAttributes
       THEN [ok |-> FALSE, attrs |-> <<>>]
       ELSE [ok |-> TRUE, attrs |-> requested]

\* ValidatorOptions.ValidateFormat: every format string gives the Terraform parser.
ValidateFormat(format) == [ok |-> TRUE, type |-> "terraform"]

\* The requests: method, whether the body decodes as JSON, the two fields of the
\* body, and what the application's Run answers when it is called.
RequestMethods == {"GET", "POST", "PUT"}

RequestAttrs == {<<>>, <<"ami">>, <<"tags", "ami">>, <<"bogus">>, <<"ami", "tags.Env">>}

RequestFormats == {"terraform", ""}

RunOutcomes == {"nil", "ErrDriftDetected", "ErrNoEC2Instances", "ErrParse"}

InitHandler ==
  /\ oldState = <<>> /\ currentState = <<>> /\ attributes = <<>>
  /\ Entry(FALSE)
  /\ run = 1 /\ firstResult = NoResult
  /\ app = Idle /\ legacy = Idle
  /\ \E m \in RequestMethods, dec \in BOOLEAN, a \in RequestAttrs,
        f \in RequestFormats, out \in RunOutcomes :
       handler = [pc |-> "method", method |-> m, decodes |-> dec, attrs |-> a,
                  format |-> f, outcome |-> out, validAttrs |-> <<>>,
                  runCalls |-> <<>>, status |-> 0, driftDetected |-> "unset"]

\* sendError / sendResponse, then return.
Respond(status, drift) ==
  handler' = [handler EXCEPT !.pc = "done", !.status = status, !.driftDetected = drift]

\* if r.Method != http.MethodPost
CheckMethod ==
  /\ handler.pc = "method"
  /\ IF handler.method # "POST"
     THEN Respond(405, "unset")
     ELSE handler' = [handler EXCEPT !.pc = "decode"]
  /\ UNCHANGED <<detectVars, app, legacy>>

\* json.NewDecoder(r.Body).Decode(&req)
DecodeBody ==
  /\ handler.pc = "decode"
  /\ IF ~handler.decodes
     THEN Respond(400, "unset")
     ELSE handler' = [handler EXCEPT !.pc = "attrs"]
  /\ UNCHANGED <<detectVars, app, legacy>>

\* h.validator.ValidateAttributes(req.Attrs)
CheckAttributes ==
  /\ handler.pc = "attrs"
  /\ LET v == ValidateAttributes(handler.attrs)
     IN  IF ~v.ok
         THEN Respond(400, "unset")
         ELSE handler' = [handler EXCEPT !.pc = "format", !.validAttrs = v.attrs]
  /\ UNCHANGED <<detectVars, app, legacy>>

\* h.validator.ValidateFormat(req.Format)
CheckFormat ==
  /\ handler.pc = "format"
  /\ IF ~ValidateFormat(handler.format).ok
     THEN Respond(400, "unset")
     ELSE handler' = [handler EXCEPT !.pc = "run"]
  /\ UNCHANGED <<detectVars, app, legacy>>

\* The switch on the error Run returned.
RunResponse(outcome) ==
  CASE outcome = "nil" -> <<200, "false">>
    [] outcome = "ErrDriftDetected" -> <<200, "true">>
    [] outcome = "ErrNoEC2Instances" -> <<400, "unset">>
    [] OTHER -> <<500, "unset">>

\* h.app.Run(r.Context(), validAttrs, parserType, ports.HTTP) and the response.
CallRun ==
  /\ handler.pc = "run"
  /\ handler' = [handler EXCEPT !.pc = "done",
                                !.runCalls = Append(@, handler.validAttrs),
                                !.status = RunResponse(handler.outcome)[1],
                                !.driftDetected = RunResponse(handler.outcome)[2]]
  /\ UNCHANGED <<detectVars, app, legacy>>

NextHandler ==
  \/ CheckMethod
  \/ DecodeBody
  \/ CheckAttributes
  \/ CheckFormat
  \/ CallRun

\* One request to HandleDrift.
SpecHandler == InitHandler /\ [][NextHandler]_vars

\* C28: Run is called only for a POST request whose body decodes and whose
\* attributes are all valid; a request with another method is answered 405, an
\* undecodable body 400, an invalid attribute 400, each without a call of Run;
\* when Run is called, ErrDriftDetected is answered 200 with drift_detected
\* true and nil 200 with drift_detected false.
RequestPasses ==
  /\ handler.method = "POST"
  /\ handler.decodes
  /\ \A k \in DOMAIN handler.attrs : handler.attrs[k] \in validAttributes

C28_RunOnlyAfterChecks ==
  /\ Len(handler.runCalls) <= 1
  /\ handler.runCalls # <<>> => (RequestPasses /\ handler.pc = "done")
  /\ handler.pc = "done" =>
       /\ handler.method # "POST" => handler.status = 405
       /\ (handler.method = "POST" /\ ~handler.decodes) => handler.status = 400
       /\ (handler.method = "POST" /\ handler.decodes /\ ~RequestPasses)
            => handler.status = 400
       /\ ~RequestPasses => (handler.runCalls = <<>> /\ handler.driftDetected = "unset")
       /\ handler.runCalls # <<>> =>
            /\ handler.outcome = "ErrDriftDetected" =>
                 (handler.status = 200 /\ handler.driftDetected = "true")
            /\ handler.outcome = "nil" =>
                 (handler.status = 200 /\ handler.driftDetected = "false")

C28_Witness ==
  /\ handler.pc = "done"
  /\ handler.attrs = <<"tags", "ami">>
  /\ handler.runCalls = <<handler.attrs>>
  /\ handler.outcome = "ErrDriftDetected"
  /\ handler.status = 200

\* ------------------------------------------------------------- App.Run
\* attrs when the caller passes none.
DefaultAttrs ==
  <<"ami", "instance_type", "security_groups", "tags",
    "root_block_device.volume_size", "root_block_device.volume_type">>

\* The collections the provider and the parser can hand to Run.
RunCollections == {<<>>, <<App1>>, <<App1Drifted>>, <<App1, App2>>, <<Unnamed>>}

\* Whether Detect's result can be non-empty: it is when a key is in one index only
\* or a pair yields a detail, and a cancelled ctx can leave it empty all the same.
DetectFinds(old, curr, attrs, done) ==
  LET om == IndexByName(old)
      cm == IndexByName(curr)
      drifted ==
        \/ DOMAIN om # DOMAIN cm
        \/ \E n \in DOMAIN om \cap DOMAIN cm :
             \E d \in CompareAll(om[n], cm[n], attrs) : Emits(Task("matched", n, om[n], cm[n]),
                                                              MatchedReport(om[n], n, d))
  IN  IF ~drifted THEN {FALSE} ELSE IF done THEN {TRUE, FALSE} ELSE {TRUE}

NoError == [kind |-> "nil", carries |-> "nil"]

RunError(kind, cause) == [kind |-> kind, carries |-> cause]

\* The inputs of one call: which of the steps before the fetch fails (if any),
\* whether the fetch and the parse fail, what they deliver, the arguments.
InitRun ==
  /\ oldState = <<>> /\ currentState = <<>> /\ attributes = <<>>
  /\ Entry(FALSE)
  /\ run = 1 /\ firstResult = NoResult
  /\ handler = Idle /\ legacy = Idle
  /\ \E pre \in {"ok", "readfile", "provider", "validate"},
        ff \in BOOLEAN, pf \in BOOLEAN, live \in RunCollections,
        config \in RunCollections, a \in {<<>>, <<"ami">>},
        rt \in {"CLI", "HTTP"}, done \in BOOLEAN :
       app = [pc |-> "read", precheck |-> pre, fetchFails |-> ff, parseFails |-> pf,
              live |-> live, config |-> config, attrs |-> a, runtype |-> rt,
              ctxDone |-> done, err |-> "nil", stateInstances |-> <<>>,
              configInstances |-> <<>>, detectCalls |-> <<>>,
              result |-> NoError, exited |-> FALSE]

RunReturns(result) == app' = [app EXCEPT !.pc = "done", !.result = result]

\* os.ReadFile(statePath)
RunReadFile ==
  /\ app.pc = "read"
  /\ IF app.precheck = "readfile"
     THEN RunReturns(RunError("ErrReadFile", "readfile"))
     ELSE app' = [app EXCEPT !.pc = "provider"]
  /\ UNCHANGED <<detectVars, handler, legacy>>

\* config.NewProviderConfig(providerType)
RunProviderConfig ==
  /\ app.pc = "provider"
  /\ IF app.precheck = "provider"
     THEN RunReturns(RunError("ErrInvalidCloudProvider", "provider"))
     ELSE app' = [app EXCEPT !.pc = "validate"]
  /\ UNCHANGED <<detectVars, handler, legacy>>

\* cloudCfg.Validate()
RunValidate ==
  /\ app.pc = "validate"
  /\ IF app.precheck = "validate"
     THEN RunReturns(RunError("ErrCloudConfigValidation", "validate"))
     ELSE app' = [app EXCEPT !.pc = "fetch"]
  /\ UNCHANGED <<detectVars, handler, legacy>>

\* stateInstances, err = fetch(ctx, cloudCfg): err is not looked at here.
RunFetch ==
  /\ app.pc = "fetch"
  /\ app' = [app EXCEPT !.pc = "parse",
                        !.stateInstances = IF app.fetchFails THEN <<>> ELSE app.live,
                        !.err = IF app.fetchFails THEN "fetch" ELSE "nil"]
  /\ UNCHANGED <<detectVars, handler, legacy>>

\* configInstances, err = parse(content): the same err variable is assigned.
RunParse ==
  /\ app.pc = "parse"
  /\ app' = [app EXCEPT !.pc = "check",
                        !.configInstances = IF app.parseFails THEN <<>> ELSE app.config,
                        !.err = IF app.parseFails THEN "parse" ELSE "nil"]
  /\ UNCHANGED <<detectVars, handler, legacy>>

\* if err != nil { return ErrParse{err} }; if len(configInstances) == 0 { ... }
RunCheck ==
  /\ app.pc = "check"
  /\ IF app.err # "nil" THEN RunReturns(RunError("ErrParse", app.err))
     ELSE IF Len(app.configInstances) = 0
          THEN RunReturns(RunError("ErrNoEC2Instances", "nil"))
          ELSE app' = [app EXCEPT !.pc = "detect"]
  /\ UNCHANGED <<detectVars, handler, legacy>>

\* The default attributes, driftchecker.Detect, and the return (or os.Exit(0)).
RunDetect ==
  /\ app.pc = "detect"
  /\ LET attrs == IF Len(app.attrs) = 0 THEN DefaultAttrs ELSE app.attrs
         call == <<app.stateInstances, app.configInstances, attrs>>
     IN  \E found \in DetectFinds(app.stateInstances, app.configInstances, attrs,
                                  app.ctxDone) :
           app' = [app EXCEPT !.pc = "done",
                              !.detectCalls = Append(@, call),
                              !.exited = found /\ app.runtype = "CLI",
                              !.result = IF found /\ app.runtype # "CLI"
                                         THEN RunError("ErrDriftDetected", "nil")
                                         ELSE NoError]
  /\ UNCHANGED <<detectVars, handler, legacy>>

NextRun ==
  \/ RunReadFile
  \/ RunProviderConfig
  \/ RunValidate
  \/ RunFetch
  \/ RunParse
  \/ RunCheck
  \/ RunDetect

\* One call of App.Run.
SpecRun == InitRun /\ [][NextRun]_vars

\* C29: when the fetch of the live instances fails, Run returns an error that
\* carries that failure and Detect is not called.
C29_FetchFailureReturned ==
  (app.pc = "done" /\ app.precheck = "ok" /\ app.fetchFails) =>
    /\ app.result.carries = "fetch"
    /\ app.detectCalls = <<>>

\* ------------------------------------------- legacy comparator.DetectDrift
\* extractBaseName: the index key up to its last hyphen, whole when it has none.
extractBaseName ==
  ("app1-abc" :> "app1") @@ ("app2-def" :> "app2") @@ ("app3" :> "app3")

LegacyInstance(key, id, type, ami) ==
  [IndexKey |-> key, ID |-> id, InstanceType |-> type, AMI |-> ami]

InstanceConfig(name, type, ami) ==
  [ApplicationName |-> name, InstanceType |-> type, AMI |-> ami]

LegacyInstances ==
  {LegacyInstance("app1-abc", "i-1", "t2.micro", "ami-1"),
   LegacyInstance("app2-def", "i-2", "t2.nano", "ami-1"),
   LegacyInstance("app3", "i-3", "t2.micro", "ami-2")}

LegacyConfigLists ==
  {<<>>,
   <<InstanceConfig("app1", "t2.large", "ami-1"), InstanceConfig("app2", "t2.medium", "ami-2")>>,
   <<InstanceConfig("app1", "t2.micro", "ami-1"), InstanceConfig("app4", "t2.micro", "ami-1")>>,
   <<InstanceConfig("app4", "t2.micro", "ami-1"), InstanceConfig("app3", "t2.micro", "ami-1")>>,
   <<InstanceConfig("app1", "t2.micro", "ami-1"), InstanceConfig("app1", "t2.large", "ami-1")>>}

LegacyAttrLists ==
  {<<>>, <<"instance_type">>, <<"ami", "application_name", "instance_type">>,
   <<"unsupported_attr">>}

\* The loop over configs: the first config of the base name, if any.
RECURSIVE MatchingConfig(_, _)
MatchingConfig(configs, baseName) ==
  IF configs = <<>> THEN <<>>
  ELSE IF Head(configs).ApplicationName = baseName THEN <<Head(configs)>>
  ELSE MatchingConfig(Tail(configs), baseName)

\* compareAttributes, for the attributes of the records modelled: the config
\* value is the expected one, the state value the actual one.
RECURSIVE compareAttributes(_, _, _)
compareAttributes(stateAttrs, config, attrs) ==
  IF attrs = <<>> THEN <<>>
  ELSE LET attr == Head(attrs)
           rest == compareAttributes(stateAttrs, config, Tail(attrs))
       IN  CASE attr = "instance_type" /\ config.InstanceType # stateAttrs.InstanceType ->
                  <<DriftDetail(attr, StringValue(config.InstanceType),
                                StringValue(stateAttrs.InstanceType))>> \o rest
             [] attr = "ami" /\ config.AMI # stateAttrs.AMI ->
                  <<DriftDetail(attr, StringValue(config.AMI),
                                StringValue(stateAttrs.AMI))>> \o rest
             [] OTHER -> rest

LegacyReport(inst, drifts) ==
  [InstanceID |-> inst.ID, ApplicationName |-> extractBaseName[inst.IndexKey],
   Drifts |-> drifts]

InitLegacy ==
  /\ oldState = <<>> /\ currentState = <<>> /\ attributes = <<>>
  /\ Entry(FALSE)
  /\ run = 1 /\ firstResult = NoResult
  /\ handler = Idle /\ app = Idle
  /\ \E insts \in SeqsUpTo(LegacyInstances, MaxLegacy), cfgs \in LegacyConfigLists,
        attrs \in LegacyAttrLists :
       legacy = [pc |-> "dispatch", stateInstances |-> insts, configs |-> cfgs,
                 attributes |-> attrs, tasks |-> <<>>, wg |-> 0,
                 closer |-> "none", closed |-> FALSE, reports |-> <<>>]

\* One iteration of the loop over stateInstances: wg.Add(1); go func(inst).
LegacyDispatch ==
  /\ legacy.pc = "dispatch"
  /\ Len(legacy.tasks) < Len(legacy.stateInstances)
  /\ legacy' = [legacy EXCEPT
                  !.tasks = Append(@, [st |-> "start", r |-> <<>>,
                                       inst |-> legacy.stateInstances[Len(@) + 1]]),
                  !.wg = @ + 1]
  /\ UNCHANGED <<detectVars, handler, app>>

\* go func() { wg.Wait(); close(reportChan) }(), then the receive loop begins.
LegacySpawnCloser ==
  /\ legacy.pc = "dispatch"
  /\ Len(legacy.tasks) = Len(legacy.stateInstances)
  /\ legacy' = [legacy EXCEPT !.pc = "range", !.closer = "waiting"]
  /\ UNCHANGED <<detectVars, handler, app>>

\* A goroutine from its start to its send, or to its return when no config
\* matches or nothing differs.
LegacyTaskStart(i) ==
  /\ i \in DOMAIN legacy.tasks
  /\ legacy.tasks[i].st = "start"
  /\ LET inst == legacy.tasks[i].inst
         found == MatchingConfig(legacy.configs, extractBaseName[inst.IndexKey])
         drifts == IF found = <<>> THEN <<>>
                   ELSE compareAttributes(inst, found[1], legacy.attributes)
     IN  IF Len(drifts) > 0
         THEN legacy' = [legacy EXCEPT !.tasks[i].st = "send",
                                       !.tasks[i].r = <<LegacyReport(inst, drifts)>>]
         ELSE legacy' = [legacy EXCEPT !.tasks[i].st = "done", !.wg = @ - 1]
  /\ UNCHANGED <<detectVars, handler, app>>

\* The channel is unbuffered: a send completes together with a receive of the
\* loop "for report := range reportChan", which appends the report.
LegacyReceive(i) ==
  /\ legacy.pc = "range"
  /\ ~legacy.closed
  /\ i \in DOMAIN legacy.tasks
  /\ legacy.tasks[i].st = "send"
  /\ legacy' = [legacy EXCEPT !.tasks[i].st = "sent",
                              !.reports = Append(@, legacy.tasks[i].r[1])]
  /\ UNCHANGED <<detectVars, handler, app>>

\* The deferred wg.Done() of a goroutine whose send completed.
LegacyTaskDone(i) ==
  /\ i \in DOMAIN legacy.tasks
  /\ legacy.tasks[i].st = "sent"
  /\ legacy' = [legacy EXCEPT !.tasks[i].st = "done", !.wg = @ - 1]
  /\ UNCHANGED <<detectVars, handler, app>>

\* (mutant) the closing goroutine does not wait
LegacyWaitReturnsAtOnce(counter) == TRUE

\* wg.Wait() in the closing goroutine
LegacyWaitReturns(counter) == counter = 0

\* close(reportChan)
LegacyClose ==
  /\ legacy.closer = "waiting"
  /\ LegacyWaitReturns(legacy.wg)
  /\ legacy' = [legacy EXCEPT !.closer = "done", !.closed = TRUE]
  /\ UNCHANGED <<detectVars, handler, app>>

\* The receive loop ends on the closed channel; DetectDrift returns reports.
LegacyReturn ==
  /\ legacy.pc = "range"
  /\ legacy.closed
  /\ legacy' = [legacy EXCEPT !.pc = "done"]
  /\ UNCHANGED <<detectVars, handler, app>>

NextLegacy ==
  \/ LegacyDispatch
  \/ LegacySpawnCloser
  \/ \E i \in 1..MaxLegacy : LegacyTaskStart(i)
  \/ \E i \in 1..MaxLegacy : LegacyReceive(i)
  \/ \E i \in 1..MaxLegacy : LegacyTaskDone(i)
  \/ LegacyClose
  \/ LegacyReturn

\* The caller's goroutine, the closing goroutine and every task keep being scheduled.
LegacyFairness ==
  /\ WF_vars(LegacyDispatch \/ LegacySpawnCloser \/ LegacyReturn)
  /\ WF_vars(\E i \in 1..MaxLegacy : LegacyReceive(i))
  /\ WF_vars(LegacyClose)
  /\ \A i \in 1..MaxLegacy : WF_vars(LegacyTaskStart(i) \/ LegacyTaskDone(i))

\* One call of the legacy DetectDrift under fair scheduling.
FairSpecLegacy == InitLegacy /\ [][NextLegacy]_vars /\ LegacyFairness

\* C30: the legacy DetectDrift returns in every fair interleaving; what it
\* returns is the reports its tasks posted, each once; the channel is closed only
\* when every task has finished; every report is for a state instance whose base
\* name has a config, so that an instance without config and a config without
\* instance are in no report.
LegacyPosted(rep) ==
  Cardinality({i \in DOMAIN legacy.tasks :
                 legacy.tasks[i].st \in {"sent", "done"} /\ legacy.tasks[i].r = <<rep>>})

LegacyShape ==
  /\ \A k \in DOMAIN legacy.reports :
       /\ Count(legacy.reports, legacy.reports[k]) = LegacyPosted(legacy.reports[k])
       /\ \E i \in DOMAIN legacy.stateInstances :
            /\ legacy.stateInstances[i].ID = legacy.reports[k].InstanceID
            /\ extractBaseName[legacy.stateInstances[i].IndexKey] =
                 legacy.reports[k].ApplicationName
       /\ \E j \in DOMAIN legacy.configs :
            legacy.configs[j].ApplicationName = legacy.reports[k].ApplicationName
  /\ \A i \in DOMAIN legacy.tasks :
       (legacy.tasks[i].st \in {"sent", "done"} /\ legacy.tasks[i].r # <<>>)
         => legacy.tasks[i].r[1] \in Range(legacy.reports)
  /\ legacy.closed =>
       /\ Len(legacy.tasks) = Len(legacy.stateInstances)
       /\ legacy.wg = 0
       /\ \A i \in DOMAIN legacy.tasks : legacy.tasks[i].st = "done"

C30_LegacyTerminates ==
  /\ <>(legacy.pc = "done")
  /\ []LegacyShape

C30_Witness ==
  /\ legacy.pc = "done"
  /\ Len(legacy.tasks) = 2
  /\ Len(legacy.reports) = 1
  /\ \E i \in DOMAIN legacy.tasks :
       MatchingConfig(legacy.configs, extractBaseName[legacy.tasks[i].inst.IndexKey]) = <<>>
  /\ \E j \in DOMAIN legacy.configs : legacy.configs[j].ApplicationName = "app4"

====
